---- MODULE Spec2Model ----
(***************************************************************************)
(* Model of check_rule_ids.py: the pre-merge rule-identifier conflict      *)
(* checker.  One run of main() is a sequential program; its inputs (the    *)
(* output of `git diff --name-status`, the tree of origin/main and the     *)
(* content of the working copy) are fixed by Init, and each action is one  *)
(* step of main().                                                         *)
(***************************************************************************)
EXTENDS Integers, Sequences, FiniteSets, TLC

\* ------------------------------------------------------------------------
\* Bounds of the model
\* ------------------------------------------------------------------------
\* longest `git diff --name-status` output (lines)
MaxChanged == 2
\* most <rule> elements in the working-copy content of a file
MaxRules == 2
\* most <rule> elements in the content of a file at origin/main
MaxRefRules == 1

\* ------------------------------------------------------------------------
\* Paths.  A path is modelled by its directory prefix, its stem and its
\* suffix, which is all that startswith("rules/") / endswith(".xml") read.
\* ------------------------------------------------------------------------
PathA == [dir |-> "rules/", stem |-> "a", ext |-> ".xml"]
PathB == [dir |-> "rules/", stem |-> "b", ext |-> ".xml"]
PathDoc == [dir |-> "docs/", stem |-> "x", ext |-> ".xml"]

\* git prints the diff entries and the tree sorted by path
PathsInOrder == << PathDoc, PathA, PathB >>
Paths == { PathsInOrder[i] : i \in DOMAIN PathsInOrder }

\* line 18 and line 41: f.startswith("rules/") and f.endswith(".xml")
IsRuleFile(p) == p.dir = "rules/" /\ p.ext = ".xml"

RulePaths == { p \in Paths : IsRuleFile(p) }

\* statuses `git diff --name-status` may print that the model draws from
Statuses == { "A", "M", "D" }

\* ------------------------------------------------------------------------
\* File content.  An XML document is the sequence of the id attributes of
\* its <rule> elements; an attribute is a sequence of characters, <<>> when
\* the attribute is missing or empty.
\* ------------------------------------------------------------------------
AttrVals == { << "1" >>, << "0", "1" >>, << "2" >>, << "x" >> }

DigitChars == { "0", "1", "2", "3", "4", "5", "6", "7", "8", "9" }

DigitVal(c) ==
    CASE c = "0" -> 0 [] c = "1" -> 1 [] c = "2" -> 2 [] c = "3" -> 3
      [] c = "4" -> 4 [] c = "5" -> 5 [] c = "6" -> 6 [] c = "7" -> 7
      [] c = "8" -> 8 [] c = "9" -> 9

\* str.isdigit(): non-empty and every character a digit
IsDigit(s) == Len(s) > 0 /\ \A i \in 1..Len(s) : s[i] \in DigitChars

\* int(s) of a digit string
RECURSIVE ParseInt(_)
ParseInt(s) ==
    IF Len(s) = 0 THEN 0
    ELSE 10 * ParseInt(SubSeq(s, 1, Len(s) - 1)) + DigitVal(s[Len(s)])

SeqsUpTo(S, n) == UNION { [1..k -> S] : k \in 0..n }

Xml(rules) == [kind |-> "xml", rules |-> rules]
Malformed == [kind |-> "malformed", rules |-> << >>]
\* the path does not exist (working copy: read_text raises; origin/main:
\* not listed by ls-tree, `git show` fails)
Missing == [kind |-> "missing", rules |-> << >>]

WorkContents == { Xml(r) : r \in SeqsUpTo(AttrVals, MaxRules) } \cup { Malformed, Missing }
RefContents == { Xml(r) : r \in SeqsUpTo(AttrVals, MaxRefRules) } \cup { Malformed, Missing }
\* what a file of origin/main outside the rules filter declares
OutsideContents == { Xml(<< << "2" >> >>) }

\* extract_rule_ids_from_xml: the ids, in document order, duplicates kept;
\* [] when the content does not parse
RECURSIVE ExtractFrom(_)
ExtractFrom(rules) ==
    IF Len(rules) = 0 THEN << >>
    ELSE LET rule_id == Head(rules)
             rest == ExtractFrom(Tail(rules))
         IN  IF Len(rule_id) > 0 /\ IsDigit(rule_id)
             THEN << ParseInt(rule_id) >> \o rest
             ELSE rest

extract_rule_ids_from_xml(content) ==
    IF content.kind = "xml" THEN ExtractFrom(content.rules) ELSE << >>

\* set(ids)
SetOf(ids) == { ids[i] : i \in DOMAIN ids }

\* sorted(S) for a finite set of integers
RECURSIVE Sorted(_)
Sorted(S) ==
    IF S = {} THEN << >>
    ELSE LET m == CHOOSE x \in S : \A y \in S : x <= y
         IN  << m >> \o Sorted(S \ {m})

\* variant of detect_duplicates: the threshold is off by one (count > 2)
detect_duplicates_gt2(rule_ids) ==
    { rule_ids[i] : i \in { j \in DOMAIN rule_ids :
        \E k, l \in DOMAIN rule_ids :
            /\ k # j /\ l # j /\ k # l
            /\ rule_ids[k] = rule_ids[j] /\ rule_ids[l] = rule_ids[j] } }

\* detect_duplicates: the ids that Counter counts more than once
detect_duplicates(rule_ids) ==
    { rule_ids[i] : i \in { j \in DOMAIN rule_ids :
                             \E k \in DOMAIN rule_ids : k # j /\ rule_ids[k] = rule_ids[j] } }

\* ------------------------------------------------------------------------
\* State
\* ------------------------------------------------------------------------
VARIABLES
    diff_ok,            \* does `git diff --name-status origin/main...HEAD` succeed
    diff_lines,         \* its output: a sequence of [status, path]
    origin_main,        \* path -> content at origin/main
    worktree,           \* path -> content in the working copy
    pc,                 \* position in main()
    changed_files,      \* main: changed_files
    idx,                \* main: position of the for loop in changed_files
    dev_ids,            \* main: dev_ids
    duplicates,         \* main: duplicates
    rule_id_to_files,   \* main: rule_id_to_files (id -> set of paths)
    main_ids,           \* main: main_ids
    conflicting_ids,    \* main: conflicting_ids
    out,                \* the lines printed so far
    exit_code           \* exit status of the process, -1 while it runs

vars == << diff_ok, diff_lines, origin_main, worktree, pc, changed_files, idx,
           dev_ids, duplicates, rule_id_to_files, main_ids, conflicting_ids,
           out, exit_code >>

inputs == << diff_ok, diff_lines, origin_main, worktree >>

Running == -1

PathPos(p) == CHOOSE i \in DOMAIN PathsInOrder : PathsInOrder[i] = p

\* the outputs of git diff --name-status: one line per path, sorted by path
DiffOutputs ==
    { d \in SeqsUpTo([status : Statuses, path : Paths], MaxChanged) :
        \A i, j \in DOMAIN d : i < j => PathPos(d[i].path) < PathPos(d[j].path) }

\* the working copies: every changed rule file has some content or none
WorkTrees(d) ==
    LET C == { d[i].path : i \in DOMAIN d } \cap RulePaths
    IN  { [p \in Paths |-> IF p \in C THEN f[p] ELSE Missing] : f \in [C -> WorkContents] }

\* the trees of origin/main
RefTrees ==
    { [p \in Paths |-> IF IsRuleFile(p) THEN f[p] ELSE g] :
        f \in [RulePaths -> RefContents], g \in OutsideContents }

\* ------------------------------------------------------------------------
\* The helpers of the script
\* ------------------------------------------------------------------------
\* get_changed_rule_files, lines 15-20: the entries whose path passes the
\* filter, in order, with the status git printed
RECURSIVE FilterRuleFiles(_)
FilterRuleFiles(lines) ==
    IF Len(lines) = 0 THEN << >>
    ELSE IF IsRuleFile(Head(lines).path)
         THEN << Head(lines) >> \o FilterRuleFiles(Tail(lines))
         ELSE FilterRuleFiles(Tail(lines))

get_changed_rule_files(lines) == FilterRuleFiles(lines)

\* git ls-tree -r origin/main --name-only
LsTree(tree) == { p \in Paths : tree[p].kind # "missing" }

NoExclude == [dir |-> "", stem |-> "", ext |-> ""]

\* the files the index builder reads: lines 41 and 44-46
IndexedFiles(tree, exclude_file) ==
    { f \in LsTree(tree) : IsRuleFile(f) /\ ~(exclude_file # NoExclude /\ f = exclude_file) }

\* variant of get_rule_ids_per_file_main: each id keeps only the last file
\* that declares it (assignment instead of set.add)
get_rule_ids_per_file_main_overwrite(tree, exclude_file) ==
    LET xml_files == IndexedFiles(tree, exclude_file)
        keys == UNION { SetOf(extract_rule_ids_from_xml(tree[f])) : f \in xml_files }
        declaring(rule_id) ==
            { f \in xml_files : rule_id \in SetOf(extract_rule_ids_from_xml(tree[f])) }
    IN  [rule_id \in keys |->
            { CHOOSE f \in declaring(rule_id) :
                  \A g \in declaring(rule_id) : PathPos(g) <= PathPos(f) }]

\* variant of get_rule_ids_per_file_main: the index also covers the working
\* copies of the other changed files
get_rule_ids_per_file_main_worktree(tree, exclude_file) ==
    LET current == changed_files[idx].path
        seen == [p \in Paths |->
                    IF p # current /\ worktree[p].kind = "xml" THEN worktree[p] ELSE tree[p]]
        xml_files == IndexedFiles(seen, exclude_file)
        keys == UNION { SetOf(extract_rule_ids_from_xml(seen[f])) : f \in xml_files }
    IN  [rule_id \in keys |->
            { f \in xml_files : rule_id \in SetOf(extract_rule_ids_from_xml(seen[f])) }]

\* get_rule_ids_per_file_main: id -> the files of origin/main declaring it
get_rule_ids_per_file_main(tree, exclude_file) ==
    LET xml_files == IndexedFiles(tree, exclude_file)
        keys == UNION { SetOf(extract_rule_ids_from_xml(tree[f])) : f \in xml_files }
    IN  [rule_id \in keys |->
            { f \in xml_files : rule_id \in SetOf(extract_rule_ids_from_xml(tree[f])) }]

\* main, line 99: exclude_file=path if status == "M" else None
ExcludeFor(entry) == IF entry.status = "M" THEN entry.path ELSE NoExclude

\* variant of get_rule_ids_from_main_version: git show is asked for a path
\* that origin/main does not have, so the result is always []
get_rule_ids_from_main_version_empty(tree, file_path) == << >>

\* get_rule_ids_from_main_version: [] when git show fails
get_rule_ids_from_main_version(tree, file_path) ==
    IF tree[file_path].kind = "missing" THEN << >>
    ELSE extract_rule_ids_from_xml(tree[file_path])

\* variant of line 102: only the first rule of the file is looked up
AddedConflictsFirstOnly(ids, index) ==
    (IF Len(ids) = 0 THEN {} ELSE { ids[1] }) \cap DOMAIN index

\* main, line 102
AddedConflicts(ids, index) == SetOf(ids) \cap DOMAIN index

\* variant of line 116: the ids of origin/main are not subtracted
NewOrChangedAll(ids, old) == SetOf(ids)

\* main, line 116
NewOrChanged(ids, old) == SetOf(ids) \ SetOf(old)

\* variant of line 117: every id of the file is looked up in the index
ModifiedConflictsNoSubtract(ids, old, index) == SetOf(ids) \cap DOMAIN index

\* main, line 117
ModifiedConflicts(ids, old, index) == NewOrChanged(ids, old) \cap DOMAIN index

\* ------------------------------------------------------------------------
\* Printed lines
\* ------------------------------------------------------------------------
Line(kind, files, ids, owners) ==
    [kind |-> kind, files |-> files, ids |-> ids, owners |-> owners]

FileLine(kind, path) == Line(kind, << path >>, << >>, << >>)

PlainLine(kind) == Line(kind, << >>, << >>, << >>)

\* print_conflicts: the ids in ascending order, each with its owning files
print_conflicts(path, ids, index) ==
    LET s == Sorted(ids)
    IN  Line("conflicts", << path >>, s,
             [i \in DOMAIN s |-> IF s[i] \in DOMAIN index THEN index[s[i]] ELSE {}])

\* variant of the end of the loop: main returns without the summary
AfterEntryReturns(i) == IF i < Len(changed_files) THEN "read" ELSE "done"

\* the position after the body of the loop ran for entry i
AfterEntry(i) == IF i < Len(changed_files) THEN "read" ELSE "summary"

\* ------------------------------------------------------------------------
\* Initial state: the inputs of one run, and main() about to start
\* ------------------------------------------------------------------------
EmptyIndex == [rule_id \in {} |-> {}]

Init ==
    /\ diff_ok \in BOOLEAN
    /\ diff_lines \in (IF diff_ok THEN DiffOutputs ELSE { << >> })
    /\ origin_main \in RefTrees
    /\ worktree \in WorkTrees(diff_lines)
    /\ pc = "start"
    /\ changed_files = << >>
    /\ idx = 0
    /\ dev_ids = << >>
    /\ duplicates = {}
    /\ rule_id_to_files = EmptyIndex
    /\ main_ids = << >>
    /\ conflicting_ids = {}
    /\ out = << >>
    /\ exit_code = Running

Exit(code, lines) ==
    /\ out' = out \o lines
    /\ exit_code' = code
    /\ pc' = "done"

\* `continue`, or the end of the loop body: the next entry or the summary
NextEntry(lines) ==
    /\ out' = out \o lines
    /\ pc' = AfterEntry(idx)
    /\ idx' = IF idx < Len(changed_files) THEN idx + 1 ELSE idx
    /\ exit_code' = exit_code

\* ------------------------------------------------------------------------
\* main()
\* ------------------------------------------------------------------------
\* lines 21-23: git diff fails, the script prints and exits 1
EnumerateFails ==
    /\ pc = "start"
    /\ ~diff_ok
    /\ Exit(1, << PlainLine("enum_failed") >>)
    /\ UNCHANGED << inputs, changed_files, idx, dev_ids, duplicates,
                    rule_id_to_files, main_ids, conflicting_ids >>

\* lines 76-79: no changed rule file, main returns
NoChanges ==
    /\ pc = "start"
    /\ diff_ok
    /\ get_changed_rule_files(diff_lines) = << >>
    /\ changed_files' = << >>
    /\ Exit(0, << PlainLine("none_changed") >>)
    /\ UNCHANGED << inputs, idx, dev_ids, duplicates, rule_id_to_files,
                    main_ids, conflicting_ids >>

\* lines 76-83: the header line, then the loop starts
StartLoop ==
    /\ pc = "start"
    /\ diff_ok
    /\ get_changed_rule_files(diff_lines) # << >>
    /\ changed_files' = get_changed_rule_files(diff_lines)
    /\ out' = out \o << Line("header",
                             [i \in DOMAIN changed_files' |-> changed_files'[i].path],
                             << >>, << >>) >>
    /\ idx' = 1
    /\ pc' = "read"
    /\ UNCHANGED << inputs, dev_ids, duplicates, rule_id_to_files, main_ids,
                    conflicting_ids, exit_code >>

\* variant of lines 89-91: the read failure ends the run with status 1
ReadFailsExits ==
    /\ pc = "read"
    /\ LET path == changed_files[idx].path
       IN  /\ worktree[path].kind = "missing"
           /\ Exit(1, << FileLine("checking", path), FileLine("warn", path) >>)
    /\ UNCHANGED << inputs, changed_files, idx, dev_ids, duplicates, rule_id_to_files,
                    main_ids, conflicting_ids >>

\* lines 84-91, read_text raises: warning, continue
ReadFails ==
    /\ pc = "read"
    /\ LET path == changed_files[idx].path
       IN  /\ worktree[path].kind = "missing"
           /\ NextEntry(<< FileLine("checking", path), FileLine("warn", path) >>)
    /\ UNCHANGED << inputs, changed_files, dev_ids, duplicates, rule_id_to_files,
                    main_ids, conflicting_ids >>

\* lines 84-88: the content is read and its ids extracted
ReadFile ==
    /\ pc = "read"
    /\ LET path == changed_files[idx].path
       IN  /\ worktree[path].kind # "missing"
           /\ dev_ids' = extract_rule_ids_from_xml(worktree[path])
           /\ out' = out \o << FileLine("checking", path) >>
    /\ pc' = "dups"
    /\ UNCHANGED << inputs, changed_files, idx, duplicates, rule_id_to_files,
                    main_ids, conflicting_ids, exit_code >>

\* lines 94-97: duplicates in the file, exit 1
DuplicatesFound ==
    /\ pc = "dups"
    /\ duplicates' = detect_duplicates(dev_ids)
    /\ duplicates' # {}
    /\ Exit(1, << Line("dup", << changed_files[idx].path >>, Sorted(duplicates'), << >>) >>)
    /\ UNCHANGED << inputs, changed_files, idx, dev_ids, rule_id_to_files,
                    main_ids, conflicting_ids >>

\* lines 94-95: no duplicate
NoDuplicates ==
    /\ pc = "dups"
    /\ duplicates' = detect_duplicates(dev_ids)
    /\ duplicates' = {}
    /\ pc' = "index"
    /\ UNCHANGED << inputs, changed_files, idx, dev_ids, rule_id_to_files,
                    main_ids, conflicting_ids, out, exit_code >>

\* line 99, then the dispatch on the status of lines 101 and 109; an entry
\* that is neither "A" nor "M" falls through to the next iteration
BuildIndex ==
    /\ pc = "index"
    /\ LET entry == changed_files[idx]
       IN  /\ rule_id_to_files' = get_rule_ids_per_file_main(origin_main, ExcludeFor(entry))
           /\ IF entry.status = "A"
              THEN pc' = "added" /\ UNCHANGED << idx, out, exit_code >>
              ELSE IF entry.status = "M"
                   THEN pc' = "modified" /\ UNCHANGED << idx, out, exit_code >>
                   ELSE NextEntry(<< >>)
    /\ UNCHANGED << inputs, changed_files, dev_ids, duplicates, main_ids,
                    conflicting_ids >>

\* lines 101-105: an added file with conflicts, exit 1
AddedConflict ==
    /\ pc = "added"
    /\ conflicting_ids' = AddedConflicts(dev_ids, rule_id_to_files)
    /\ conflicting_ids' # {}
    /\ Exit(1, << print_conflicts(changed_files[idx].path, conflicting_ids',
                                  rule_id_to_files) >>)
    /\ UNCHANGED << inputs, changed_files, idx, dev_ids, duplicates,
                    rule_id_to_files, main_ids >>

\* lines 101-107: an added file without conflict
AddedPasses ==
    /\ pc = "added"
    /\ conflicting_ids' = AddedConflicts(dev_ids, rule_id_to_files)
    /\ conflicting_ids' = {}
    /\ NextEntry(<< FileLine("pass_new", changed_files[idx].path) >>)
    /\ UNCHANGED << inputs, changed_files, dev_ids, duplicates,
                    rule_id_to_files, main_ids >>

\* lines 109-114: a modified file with the ids it had at origin/main
ModifiedUnchanged ==
    /\ pc = "modified"
    /\ main_ids' = get_rule_ids_from_main_version(origin_main, changed_files[idx].path)
    /\ SetOf(dev_ids) = SetOf(main_ids')
    /\ NextEntry(<< FileLine("info", changed_files[idx].path) >>)
    /\ UNCHANGED << inputs, changed_files, dev_ids, duplicates,
                    rule_id_to_files, conflicting_ids >>

\* lines 109-120: a modified file with conflicting new ids, exit 1
ModifiedConflict ==
    /\ pc = "modified"
    /\ main_ids' = get_rule_ids_from_main_version(origin_main, changed_files[idx].path)
    /\ SetOf(dev_ids) # SetOf(main_ids')
    /\ conflicting_ids' = ModifiedConflicts(dev_ids, main_ids', rule_id_to_files)
    /\ conflicting_ids' # {}
    /\ Exit(1, << print_conflicts(changed_files[idx].path, conflicting_ids',
                                  rule_id_to_files) >>)
    /\ UNCHANGED << inputs, changed_files, idx, dev_ids, duplicates,
                    rule_id_to_files >>

\* lines 109-122: a modified file whose new ids are free
ModifiedPasses ==
    /\ pc = "modified"
    /\ main_ids' = get_rule_ids_from_main_version(origin_main, changed_files[idx].path)
    /\ SetOf(dev_ids) # SetOf(main_ids')
    /\ conflicting_ids' = ModifiedConflicts(dev_ids, main_ids', rule_id_to_files)
    /\ conflicting_ids' = {}
    /\ NextEntry(<< FileLine("pass_mod", changed_files[idx].path) >>)
    /\ UNCHANGED << inputs, changed_files, dev_ids, duplicates,
                    rule_id_to_files >>

\* line 124: the summary, main returns
Summary ==
    /\ pc = "summary"
    /\ Exit(0, << PlainLine("summary") >>)
    /\ UNCHANGED << inputs, changed_files, idx, dev_ids, duplicates,
                    rule_id_to_files, main_ids, conflicting_ids >>

Next ==
    \/ EnumerateFails
    \/ NoChanges
    \/ StartLoop
    \/ ReadFails
    \/ ReadFile
    \/ DuplicatesFound
    \/ NoDuplicates
    \/ BuildIndex
    \/ AddedConflict
    \/ AddedPasses
    \/ ModifiedUnchanged
    \/ ModifiedConflict
    \/ ModifiedPasses
    \/ Summary

Spec == Init /\ [][Next]_vars

\* ------------------------------------------------------------------------
\* Vocabulary of the properties, stated over the inputs and the output
\* ------------------------------------------------------------------------
Done == pc = "done"

PathOf(i) == changed_files[i].path
StatusOf(i) == changed_files[i].status

\* the ids the working copy of entry i declares, and the same as a set
Cand(i) == extract_rule_ids_from_xml(worktree[PathOf(i)])
CandSet(i) == SetOf(Cand(i))

Readable(i) == worktree[PathOf(i)].kind # "missing"
Parses(i) == worktree[PathOf(i)].kind = "xml"

\* more declarations than distinct ids
HasDuplicate(i) == Len(Cand(i)) > Cardinality(CandSet(i))
DuplicatedIds(i) ==
    { x \in CandSet(i) : Cardinality({ k \in DOMAIN Cand(i) : Cand(i)[k] = x }) > 1 }

\* the ids a file declares at origin/main; the rule files of origin/main
\* declaring x among `files`
RefIds(f) == SetOf(extract_rule_ids_from_xml(origin_main[f]))
Owners(x, files) == { f \in files : x \in RefIds(f) }
AllRefIds == UNION { RefIds(f) : f \in RulePaths }
OtherRefIds(f) == UNION { RefIds(g) : g \in RulePaths \ {f} }

\* OLD of entry i
Old(i) == RefIds(PathOf(i))

PassKinds == { "pass_new", "pass_mod", "info" }
FailKinds == { "dup", "conflicts" }
TerminalKinds == PassKinds \cup FailKinds

\* positions in the output of the lines of some kinds about entry i
LinesAbout(i, kinds) ==
    { k \in DOMAIN out : out[k].kind \in kinds /\ out[k].files = << PathOf(i) >> }

\* the loop printed "Checking file" for entry i
Reached(i) == i \in DOMAIN changed_files /\ LinesAbout(i, {"checking"}) # {}

\* the loop body is over for entry i (it ended, continued or exited)
Finished(i) ==
    /\ i \in DOMAIN changed_files
    /\ i < idx \/ (i = idx /\ pc \in {"summary", "done"})

\* entry i went through the duplicate check and into the conflict check
Checked(i) == Finished(i) /\ Readable(i) /\ ~HasDuplicate(i)

Passed(i) == LinesAbout(i, PassKinds) # {} /\ LinesAbout(i, FailKinds) = {}
Failed(i) == LinesAbout(i, FailKinds) # {}

\* the conflict report about entry i lists exactly the ids of S, ascending
ReportsExactly(i, S) ==
    /\ Cardinality(LinesAbout(i, {"conflicts"})) = 1
    /\ \A k \in LinesAbout(i, {"conflicts"}) : out[k].ids = Sorted(S)

\* the ids of the conflict reports about entry i
ReportedIds(i) == UNION { SetOf(out[k].ids) : k \in LinesAbout(i, {"conflicts"}) }

\* an entry has an identifier conflict: a declared id that another file of
\* origin/main owns (for a modified file, among the ids it did not have)
Conflicts(i) ==
    IF StatusOf(i) = "A" THEN CandSet(i) \cap AllRefIds
    ELSE IF StatusOf(i) = "M" THEN (CandSet(i) \ Old(i)) \cap OtherRefIds(PathOf(i))
    ELSE {}

Defective(i) == Readable(i) /\ (HasDuplicate(i) \/ Conflicts(i) # {})

\* ------------------------------------------------------------------------
\* Properties
\* ------------------------------------------------------------------------

\* C1: a finished run has exit status 0 exactly when git diff succeeded and
\* no entry of the change list has a duplicated id or an id conflict;
\* otherwise it is 1.  An empty change list, and a change list whose files
\* could all only be skipped, end with 0.
C1_ExitStatus ==
    Done =>
        /\ exit_code \in {0, 1}
        /\ exit_code = 0 <=> (diff_ok /\ \A i \in DOMAIN changed_files : ~Defective(i))
        /\ (diff_ok /\ changed_files = << >>) => exit_code = 0
        /\ (diff_ok /\ \A i \in DOMAIN changed_files : ~Readable(i)) => exit_code = 0

\* a run of two files, the first clean and checked, the second defective
C1_Witness ==
    /\ Done
    /\ exit_code = 1
    /\ Len(changed_files) = 2
    /\ Checked(1) /\ CandSet(1) # {} /\ ~Defective(1)
    /\ Defective(2)

\* C2: an added file that reaches the conflict check with id set S: when S
\* meets the ids of the files of origin/main the run exits 1 and the report
\* lists exactly S \cap (ids of origin/main), each id with every file of
\* origin/main that declares it; when S is disjoint from them the file passes.
C2_AddedFile ==
    \A i \in DOMAIN changed_files :
        (StatusOf(i) = "A" /\ Checked(i)) =>
            LET X == CandSet(i) \cap AllRefIds
            IN  IF X # {}
                THEN /\ exit_code = 1
                     /\ ReportsExactly(i, X)
                     /\ LinesAbout(i, PassKinds) = {}
                     /\ \A k \in LinesAbout(i, {"conflicts"}) :
                            \A n \in DOMAIN out[k].ids :
                                out[k].owners[n] = Owners(out[k].ids[n], RulePaths)
                ELSE /\ Passed(i)
                     /\ Cardinality(LinesAbout(i, {"pass_new"})) = 1

\* an added file with free ids passed, then an added file is reported with
\* an id that two files of origin/main own
C2_Witness ==
    /\ Len(changed_files) = 2
    /\ StatusOf(1) = "A" /\ Checked(1) /\ CandSet(1) # {} /\ Passed(1)
    /\ StatusOf(2) = "A" /\ Checked(2) /\ Failed(2)
    /\ \E x \in CandSet(2) : Cardinality(Owners(x, RulePaths)) = 2

\* C3 as stated: a modified file whose id set equals the id set it has at
\* origin/main passes, however often the working copy declares each id.
C3_Original ==
    \A i \in DOMAIN changed_files :
        (StatusOf(i) = "M" /\ Finished(i) /\ Readable(i) /\ CandSet(i) = Old(i))
            => Passed(i)

\* C3 amended: a modified file whose id set equals the id set it has at
\* origin/main, and which declares no id more than once, passes with the
\* informational line.
C3_UnchangedIds ==
    \A i \in DOMAIN changed_files :
        (StatusOf(i) = "M" /\ Checked(i) /\ CandSet(i) = Old(i)) =>
            /\ Passed(i)
            /\ Cardinality(LinesAbout(i, {"info"})) = 1
            /\ LinesAbout(i, {"pass_mod", "pass_new"}) = {}

\* a modified file with the ids of origin/main in a different document
C3_Witness ==
    \E i \in DOMAIN changed_files :
        /\ StatusOf(i) = "M" /\ Checked(i)
        /\ CandSet(i) = Old(i) /\ Old(i) # {}
        /\ worktree[PathOf(i)] # origin_main[PathOf(i)]
        /\ Passed(i)

\* C4: a modified file that reaches the conflict check with an id set other
\* than OLD fails exactly when (its ids minus OLD) meets the ids of the other
\* files of origin/main, and the report lists exactly that intersection: no
\* id of OLD, removed or kept, is reported.
C4_ModifiedFile ==
    \A i \in DOMAIN changed_files :
        (StatusOf(i) = "M" /\ Checked(i) /\ CandSet(i) # Old(i)) =>
            LET X == (CandSet(i) \ Old(i)) \cap OtherRefIds(PathOf(i))
            IN  /\ Failed(i) <=> X # {}
                /\ X # {} => (ReportsExactly(i, X) /\ exit_code = 1)
                /\ X = {} => (Passed(i) /\ Cardinality(LinesAbout(i, {"pass_mod"})) = 1)
                /\ ReportedIds(i) \cap Old(i) = {}

\* a modified file dropped an id, kept nothing or something, and took an id
\* of another file
C4_Witness ==
    \E i \in DOMAIN changed_files :
        /\ StatusOf(i) = "M" /\ Checked(i)
        /\ Old(i) \ CandSet(i) # {}
        /\ Failed(i)
        /\ ReportedIds(i) = CandSet(i) \ Old(i)

\* C5: a file whose working copy declares an id more than once makes the run
\* exit 1 with one duplicate report listing the duplicated ids, and gets no
\* conflict report and no pass line, whether or not the id is also declared
\* at origin/main.
C5_Duplicates ==
    \A i \in DOMAIN changed_files :
        (Finished(i) /\ Readable(i) /\ HasDuplicate(i)) =>
            /\ exit_code = 1
            /\ Cardinality(LinesAbout(i, {"dup"})) = 1
            /\ \A k \in LinesAbout(i, {"dup"}) : out[k].ids = Sorted(DuplicatedIds(i))
            /\ LinesAbout(i, {"conflicts"}) = {}
            /\ LinesAbout(i, PassKinds) = {}

\* a modified file duplicates an id that another file of origin/main owns
C5_Witness ==
    \E i \in DOMAIN changed_files :
        /\ StatusOf(i) = "M" /\ Finished(i) /\ Readable(i)
        /\ DuplicatedIds(i) \cap OtherRefIds(PathOf(i)) # {}
        /\ LinesAbout(i, {"dup"}) # {}

\* what the conflict step of a modified entry computes from an index
ConflictsUnder(i, index) ==
    ModifiedConflicts(Cand(i), get_rule_ids_from_main_version(origin_main, PathOf(i)), index)

FullIndex == get_rule_ids_per_file_main(origin_main, NoExclude)
IndexWithout(f) == get_rule_ids_per_file_main(origin_main, f)

\* entry i is a modified file that reaches the conflict check and declares
\* an id it had at origin/main that no other file of origin/main declares
KeepsOwnId(i) ==
    /\ StatusOf(i) = "M" /\ Checked(i)
    /\ \E x \in CandSet(i) \cap Old(i) : x \notin OtherRefIds(PathOf(i))

\* C6 as stated: such a file, none of whose new ids is taken, passes, and
\* with the index built without the exclusion it would be reported as
\* conflicting.
C6_Original ==
    \A i \in DOMAIN changed_files :
        (KeepsOwnId(i) /\ (CandSet(i) \ Old(i)) \cap OtherRefIds(PathOf(i)) = {}) =>
            /\ Passed(i)
            /\ ConflictsUnder(i, FullIndex) # {}

\* C6 amended: an id the file had at origin/main is never reported, the file
\* passes when none of its new ids is declared by another file, and the
\* exclusion does not decide this: the ids of OLD are subtracted before the
\* lookup, so the index built without the exclusion yields the same conflict
\* set, with the same owners, as the one the run reports.
C6_SelfExclusion ==
    \A i \in DOMAIN changed_files :
        KeepsOwnId(i) =>
            /\ ReportedIds(i) \cap Old(i) = {}
            /\ (CandSet(i) \ Old(i)) \cap OtherRefIds(PathOf(i)) = {} => Passed(i)
            /\ ReportedIds(i) = ConflictsUnder(i, FullIndex)
            /\ ConflictsUnder(i, FullIndex) = ConflictsUnder(i, IndexWithout(PathOf(i)))
            /\ \A x \in ConflictsUnder(i, FullIndex) :
                   FullIndex[x] = IndexWithout(PathOf(i))[x]

\* a modified file keeps an id only it owns, adds a free one, and passes the
\* lookup in the index
C6_Witness ==
    \E i \in DOMAIN changed_files :
        /\ KeepsOwnId(i)
        /\ CandSet(i) # Old(i)
        /\ PathOf(i) \in IndexedFiles(origin_main, NoExclude)
        /\ LinesAbout(i, {"pass_mod"}) # {}

HasSummary == \E k \in DOMAIN out : out[k].kind = "summary"

C8_Original ==
    \A i \in DOMAIN changed_files :
        (Finished(i) /\ ~Parses(i)) =>
            /\ Cardinality(LinesAbout(i, {"warn"})) = 1
            /\ LinesAbout(i, TerminalKinds) = {}

\* C8 amended: a file whose working copy cannot be read gets one warning and
\* no pass or fail line, the loop goes on to the next file, and the run does
\* not exit 1 at that file.  A file that is read but does not parse gets no
\* warning: it counts as declaring no id, never fails, and an added or
\* modified one gets its pass or info line.
C8_ReadOrParseFailure ==
    \A i \in DOMAIN changed_files :
        Finished(i) =>
            /\ ~Readable(i) =>
                   /\ Cardinality(LinesAbout(i, {"warn"})) = 1
                   /\ LinesAbout(i, TerminalKinds) = {}
                   /\ i < Len(changed_files) => idx > i
                   /\ ~(Done /\ idx = i /\ exit_code = 1)
            /\ (Readable(i) /\ ~Parses(i)) =>
                   /\ LinesAbout(i, {"warn"}) = {}
                   /\ LinesAbout(i, FailKinds) = {}
                   /\ StatusOf(i) \in {"A", "M"} =>
                          Cardinality(LinesAbout(i, PassKinds)) = 1

\* the first file could not be read, the loop went on to the second, whose
\* content does not parse and which passed, and the run exited 0
C8_Witness ==
    /\ Done /\ exit_code = 0
    /\ Len(changed_files) = 2
    /\ ~Readable(1) /\ LinesAbout(1, {"warn"}) # {}
    /\ Readable(2) /\ ~Parses(2) /\ Passed(2)

\* C9: only entries with status A or M and a path under rules/ ending in
\* .xml enter the loop, and no line is printed about any other entry.
C9_OnlyAddedOrModified ==
    /\ \A i \in DOMAIN changed_files :
           StatusOf(i) \in {"A", "M"} /\ IsRuleFile(PathOf(i))
    /\ \A k \in DOMAIN out : \A n \in DOMAIN out[k].files :
           \E j \in DOMAIN diff_lines :
               /\ diff_lines[j].path = out[k].files[n]
               /\ diff_lines[j].status \in {"A", "M"}
               /\ IsRuleFile(diff_lines[j].path)

\* the verdict lines an entry gets, as a function of its status, the ids of
\* its working copy and origin/main alone
ExpectedKinds(i) ==
    IF ~Readable(i) THEN {"warn"}
    ELSE IF HasDuplicate(i) THEN {"dup"}
    ELSE IF StatusOf(i) = "A"
         THEN (IF Conflicts(i) = {} THEN {"pass_new"} ELSE {"conflicts"})
    ELSE IF StatusOf(i) = "M"
         THEN (IF CandSet(i) = Old(i) THEN {"info"}
               ELSE IF Conflicts(i) = {} THEN {"pass_mod"} ELSE {"conflicts"})
    ELSE {}

KindsAbout(i) ==
    { out[k].kind : k \in LinesAbout(i, TerminalKinds \cup {"warn"}) }

\* two added files that both declare an id that origin/main does not have
SharedNewId ==
    /\ Len(changed_files) = 2
    /\ \A i \in {1, 2} : StatusOf(i) = "A" /\ Readable(i) /\ ~HasDuplicate(i)
    /\ CandSet(1) \cap CandSet(2) # {}
    /\ (CandSet(1) \cup CandSet(2)) \cap AllRefIds = {}

\* C10: the verdict of every file the loop handles, and the ids a conflict
\* report lists, are determined by the status of the file, the ids of its own
\* working copy and origin/main; the working copies of the other changed
\* files do not enter.  Two added files sharing an id that origin/main does
\* not declare both pass and the run exits 0.
C10_Independence ==
    /\ \A i \in DOMAIN changed_files :
           Finished(i) =>
               /\ KindsAbout(i) = ExpectedKinds(i)
               /\ ReportedIds(i) = (IF Readable(i) /\ ~HasDuplicate(i) THEN Conflicts(i) ELSE {})
    /\ (Done /\ SharedNewId) => (Passed(1) /\ Passed(2) /\ exit_code = 0)

C10_Witness == Done /\ SharedNewId /\ Passed(1) /\ Passed(2)

====
